---- MODULE Spec2Model ----
(***************************************************************************)
(* Model of the incremental cache-and-resolve engine of                    *)
(* item-auras-scanner (src/src/index.js).                                  *)
(*                                                                         *)
(* One behaviour is a sequence of runs of the body of the category loop of *)
(* prepareItemAndSpellData for one category: updateItemsCache,             *)
(* updateSpellsCache / cacheRelatedSpells, the aggregation loop that calls *)
(* getAurasForItem, and the write of output.json.  Categories have their   *)
(* own cache directory, so they share no state; the try/catch around the   *)
(* loop (lines 76, 110) ends the whole call when anything throws.          *)
(*                                                                         *)
(* The program is sequential.  Every remote fetch and every write to the   *)
(* record store is one step, with both of its outcomes.  The remote record *)
(* of an id is chosen when the fetch succeeds.  An item record keeps its   *)
(* ID and the SpellID of each of its Spells; its Name only feeds the       *)
(* itemNames table of updateLibItemBuffs and is left out.                  *)
(*                                                                         *)
(* Spec explores consecutive runs in which any fetch and any write may     *)
(* fail, a failed write leaving the file in any of WriteEnds.  SpecRuns    *)
(* is Spec for a remote that serves spells of one name; SpecFaults adds    *)
(* cache files that cannot be read; SpecClosure, SpecOutput and SpecBatch  *)
(* trade listed items or runs for larger records.  SpecResolve explores    *)
(* one run from an empty cache in which nothing fails.                     *)
(***************************************************************************)
EXTENDS Integers, Sequences, FiniteSets, TLC

\* ------------------------------------------------------------------ bounds
\* Item ids, spell ids, effects of a spell record, spells granted by an item.
MaxItem == 2
MaxSpell == 2
MaxEffects == 2
MaxGranted == 2
\* Spec: consecutive runs, and the size of the records the remote serves there.
MaxRuns == 2
MaxOutputs == 2
MaxListing == 2
ExpandSpells == 3
RunsEffects == 1
RunsGranted == 1
\* SpecResolve: the item ids the listing draws from, and its length.
ResolveItems == 1
ResolveListing == 1

SpellIds == 1..MaxSpell

\* Display names the remote may give a spell: one excluded, one not.
Names == {"Food", "Regen"}

\* ------------------------------------------------------------- the records
\* effect.AffectedSpell = 0 stands for an absent (falsy) reference.
Effect == [Aura : BOOLEAN, AffectedSpell : 0..MaxSpell]

EffectSeqs(maxLen) == UNION {[1..n -> Effect] : n \in 0..maxLen}

GrantedSeqs(maxLen) == UNION {[1..n -> SpellIds] : n \in 0..maxLen}

\* What downloadJson('spell', id) can return.
SpellRecords(id, maxLen) ==
  {[ID |-> id, Name |-> n, Effects |-> e] : n \in Names, e \in EffectSeqs(maxLen)}

\* What downloadJson('item', id) can return; Spells holds the SpellID of
\* every entry of item.Spells.
ItemRecords(id, maxLen) == {[ID |-> id, Spells |-> s] : s \in GrantedSeqs(maxLen)}

\* The integers of a set in ascending order: the order in which Object.entries
\* gives the integer keys of an object.
RECURSIVE SetToSortedSeq(_)
SetToSortedSeq(S) ==
  IF S = {} THEN <<>>
  ELSE LET m == CHOOSE x \in S : \A y \in S : x <= y
       IN <<m>> \o SetToSortedSeq(S \ {m})

\* Lines 56-57 sort the ids found on the page and keep every occurrence: an
\* id the page carries twice is listed twice.
Listings(maxId, maxLen) ==
  {l \in UNION {[1..n -> 1..maxId] : n \in 0..maxLen} :
     \A i, j \in DOMAIN l : i < j => l[i] <= l[j]}

\* ----------------------------------------------------------------- helpers
blacklist ==
  {"Drink", "Food", "Food & Drink", "Brain Food", "Refreshment",
   "Refreshing Drink", "Refreshing Food", "Bountiful Drink", "Bountiful Food",
   "Holiday Drink", "Brewfest Drink"}

\* Faulty variant: the exclusion set is never consulted.
BlacklistedNever(name) == FALSE

Blacklisted(name) == name \in blacklist

EmptyMap == [x \in {} |-> ""]

\* obj[key] = value
Put(obj, key, value) ==
  [x \in DOMAIN obj \cup {key} |-> IF x = key THEN value ELSE obj[x]]

\* Faulty variant: the cache set is not seeded from the loaded collection.
IdsOfUnseeded(store) == {}

\* The set built by `for (const r of store) cache.add(r.ID)`.
IdsOf(store) == {store[i].ID : i \in DOMAIN store}

NoData == [ID |-> 0]

\* getData: sequential search, first match, undefined when absent.
getData(id, store) ==
  IF \E i \in DOMAIN store : store[i].ID = id
  THEN store[CHOOSE i \in DOMAIN store :
               /\ store[i].ID = id
               /\ \A j \in DOMAIN store : store[j].ID = id => i <= j]
  ELSE NoData

\* One step of the insertion that realises store.sort((a, b) => a.ID - b.ID):
\* rec goes behind every record whose ID is not larger (the sort is stable).
RECURSIVE InsertByID(_, _)
InsertByID(rec, sorted) ==
  IF sorted = <<>> THEN <<rec>>
  ELSE IF sorted[Len(sorted)].ID <= rec.ID THEN Append(sorted, rec)
  ELSE Append(InsertByID(rec, SubSeq(sorted, 1, Len(sorted) - 1)), sorted[Len(sorted)])

RECURSIVE SortByID(_)
SortByID(store) ==
  IF store = <<>> THEN <<>>
  ELSE InsertByID(store[Len(store)], SortByID(SubSeq(store, 1, Len(store) - 1)))

\* Faulty variant: the membership test in front of a fetch always fails.
CacheHasNever(cache, id) == FALSE

\* cache.has(id), the guard in front of every fetch.
CacheHas(cache, id) == id \in cache

\* lookedup.has(spellID), the guard against circular references.
LookedUp(lookedup, id) == id \in lookedup

\* Faulty variant: the looked-up spell is not recorded.
MarkLookedUpDropped(lookedup, id) == lookedup

\* lookedup.add(spellID)
MarkLookedUp(lookedup, id) == lookedup \cup {id}

\* The spell ids item.Spells of every item, in collection order.
RECURSIVE GrantedOf(_)
GrantedOf(itemSeq) ==
  IF itemSeq = <<>> THEN <<>>
  ELSE itemSeq[1].Spells \o GrantedOf(Tail(itemSeq))

\* Faulty variant: the effects of a fetched record are not followed.
AffectedOfNone(effects) == <<>>

\* The affected spells of a record's effects, in record order, the falsy ones
\* left out (`if (effect.AffectedSpell)`).
RECURSIVE AffectedOf(_)
AffectedOf(effects) ==
  IF effects = <<>> THEN <<>>
  ELSE (IF effects[1].AffectedSpell # 0 THEN <<effects[1].AffectedSpell>> ELSE <<>>)
       \o AffectedOf(Tail(effects))

\* Faulty variant: the id of a fetched record is not added to the cache Set.
CacheAddDropped(cache, id) == cache

\* cache.add(id), lines 291 and 340.
CacheAdd(cache, id) == cache \cup {id}

\* Faulty variant: the cache is taken to have grown in every run.
GrownAlways(cache, found) == TRUE

\* cache.size !== numFound, lines 298 and 324.
Grown(cache, found) == Cardinality(cache) # found

\* loadCache(path), lines 255-263: the records of the file, in file order,
\* when it is read and parsed; [] when readFile or JSON.parse throws, which the
\* catch of line 260 answers without a word: the file is absent, cannot be
\* read, or holds no JSON.  The id Set is derived from the result by IdsOf.
loadCache(file, readable) == IF readable THEN file ELSE <<>>

\* How a writeJSON that fails can leave a file (fs.writeJSON is not atomic):
\* as it was (the failure came before the file was opened), truncated, or
\* holding the new content (the failure came after the JSON text was on disk:
\* at the trailing newline, or at close).
WriteEnds == {"old", "truncated", "new"}

\* What the file then is; a truncated file reads back as `empty`.  ends are
\* the ways the write may end in the specification.
FailedWrite(old, new, empty, ends) ==
  {IF e = "old" THEN old ELSE IF e = "new" THEN new ELSE empty : e \in ends}

\* Faulty variant: the affected spells are queued behind what was pending.
ExpandedBehind(affected, rest) == rest \o affected

\* Lines 342-346: the calls cacheRelatedSpells makes for the affected spells of
\* a fetched record run, in order, before the caller goes on with `rest`.
Expanded(affected, rest) == affected \o rest

\* ------------------------------------------------------------------- state
VARIABLES
  run,          \* number of the current run
  pc,           \* position of the run
  err,          \* what the catch of prepareItemAndSpellData caught
  result,       \* what the caller of prepareItemAndSpellData observes
  listing,      \* itemIDs of the category's listing file
  itemsFile,    \* cache/<category>/items.json
  spellsFile,   \* cache/<category>/spells.json
  outputFile,   \* cache/<category>/output.json
  items,        \* updateItemsCache: the items array
  itemsCache,   \* updateItemsCache: the cache Set; later the tracking set
  spells,       \* updateSpellsCache: the spells array
  spellsCache,  \* updateSpellsCache: the cache Set
  numFound,     \* cache.size right after loading
  idx,          \* position of the loop over the listing
  pending,      \* spell ids cacheRelatedSpells is still to be called with
  ii,           \* position of the loop over items (aggregation)
  jj,           \* position of the loop over item.Spells (aggregation)
  stack,        \* call stack of getAurasForItem: <<[id, k]>>, k the next effect
  auras,        \* the auras object of the current top-level call
  lookedup,     \* the lookedup Set of the current top-level call
  categoryData, \* the Map item id -> auras
  warned,       \* the ids named by the no-auras warning of this run
  log,          \* fetches issued in this run: <<[kind, id, ok]>>
  processed,    \* per spell id, how often its effects loop was entered in this call tree
  hist,         \* snapshot taken when the run started
  writes,       \* the files writeJSON was called for in this run
  outputs,      \* prepareDatabase: category -> its output.json
  cat,          \* prepareDatabase: position of the loop over the categories
  db,           \* prepareDatabase: group -> (spell id -> Set of item ids)
  spellNames    \* the global spellNames table

dbVars == <<outputs, cat, db, spellNames>>

vars == <<run, pc, err, result, listing, itemsFile, spellsFile, outputFile, items,
          itemsCache, spells, spellsCache, numFound, idx, pending, ii, jj, stack,
          auras, lookedup, categoryData, warned, log, processed, hist, writes, dbVars>>

\* output.json: absent before the first write, then the mapping written last.
NoOutput == [exists |-> FALSE, data |-> EmptyMap]

\* The fetches of a log that failed, and those that succeeded.
Failed(fetches) == {[kind |-> fetches[i].kind, id |-> fetches[i].id] :
                      i \in {j \in DOMAIN fetches : ~fetches[j].ok}}

Fetched(fetches) == {[kind |-> fetches[i].kind, id |-> fetches[i].id] :
                       i \in {j \in DOMAIN fetches : fetches[j].ok}}

NoHist ==
  [listing |-> <<>>, failed |-> {}, fetched |-> {}, pc |-> "idle", err |-> "none",
   itemsFile |-> <<>>, spellsFile |-> <<>>, outputFile |-> NoOutput,
   listingRead |-> TRUE, cachesRead |-> TRUE, itemsLoaded |-> <<>>,
   spellsLoaded |-> <<>>]

\* The keys of `categories` (lines 7-16), in the order Object.keys gives them.
Categories ==
  <<"bandages", "elixirs", "flasks", "food_and_drinks", "miscellaneous_items",
    "other_consumables", "potions", "trinkets">>

CategoryNames == {Categories[c] : c \in DOMAIN Categories}

\* What the pipeline has in hand before anything ran; the output files of the
\* categories are given by the specification's initial condition.
InitRun ==
  /\ run = 0
  /\ pc = "idle"
  /\ err = "none"
  /\ result = "pending"
  /\ listing = <<>>
  /\ itemsFile = <<>>
  /\ spellsFile = <<>>
  /\ outputFile = NoOutput
  /\ items = <<>>
  /\ itemsCache = {}
  /\ spells = <<>>
  /\ spellsCache = {}
  /\ numFound = 0
  /\ idx = 1
  /\ pending = <<>>
  /\ ii = 1
  /\ jj = 1
  /\ stack = <<>>
  /\ auras = EmptyMap
  /\ lookedup = {}
  /\ categoryData = EmptyMap
  /\ warned = {}
  /\ log = <<>>
  /\ processed = [s \in SpellIds |-> 0]
  /\ hist = NoHist
  /\ writes = {}
  /\ cat = 1
  /\ db = EmptyMap
  /\ spellNames = EmptyMap

\* No category has an output.json yet.
Init ==
  /\ InitRun
  /\ outputs = [c \in CategoryNames |-> NoOutput]

resolverVars == <<ii, jj, stack, auras, lookedup, categoryData, warned, processed>>
spellVars == <<spells, spellsCache, pending>>
fileVars == <<itemsFile, spellsFile, outputFile>>

\* The catch at line 110: the error is logged and the function returns undefined.
Caught(e) ==
  /\ pc' = "caught"
  /\ err' = e
  /\ result' = "undefined"

\* ------------------------------------------------------- updateItemsCache
\* What a run begins with, lines 77-80 and 272-280: the items cache is loaded,
\* everything else is new.  hist keeps how the previous run ended, the files
\* as the run found them and what loadCache made of them.
Begin(loaded) ==
  /\ pc \in {"idle", "done", "caught"}
  /\ run < MaxRuns
  /\ run' = run + 1
  /\ hist' = [listing |-> listing, failed |-> Failed(log), fetched |-> Fetched(log),
              pc |-> pc, err |-> err, itemsFile |-> itemsFile,
              spellsFile |-> spellsFile, outputFile |-> outputFile,
              listingRead |-> idx # 0,
              cachesRead |-> /\ hist.itemsLoaded = hist.itemsFile
                             /\ hist.spellsLoaded = hist.spellsFile,
              itemsLoaded |-> loaded, spellsLoaded |-> <<>>]
  /\ items' = loaded
  /\ itemsCache' = IdsOf(loaded)
  /\ numFound' = Cardinality(IdsOf(loaded))
  /\ spells' = <<>>
  /\ spellsCache' = {}
  /\ pending' = <<>>
  /\ ii' = 1
  /\ jj' = 1
  /\ stack' = <<>>
  /\ auras' = EmptyMap
  /\ lookedup' = {}
  /\ categoryData' = EmptyMap
  /\ warned' = {}
  /\ log' = <<>>
  /\ processed' = [s \in SpellIds |-> 0]
  /\ writes' = {}
  /\ UNCHANGED <<fileVars, dbVars>>

\* Lines 80, 272-283: a run starts, the items cache and the listing are loaded.
\* reads says how the read of a cache file may end in the specification: TRUE
\* when it is read, FALSE when it is not.
StartRun(maxId, maxLen, reads) ==
  /\ \E readable \in reads : Begin(loadCache(itemsFile, readable))
  /\ \E l \in Listings(maxId, maxLen) : listing' = l
  /\ pc' = "items"
  /\ err' = "none"
  /\ result' = "pending"
  /\ idx' = 1

\* Lines 282-283 throw: the listing file is absent or not JSON (an Error), or
\* its JSON has no itemIDs (a TypeError at line 286).  Caught at line 110
\* before anything is fetched; idx = 0 says the loop over the listing was not
\* entered.
ListingUnreadable(reads) ==
  /\ \E readable \in reads : Begin(loadCache(itemsFile, readable))
  /\ listing' = <<>>
  /\ idx' = 0
  /\ \E e \in {"Error", "TypeError"} : Caught(e)

\* Line 287, the id is cached already.
SkipCachedItem ==
  /\ pc = "items"
  /\ idx <= Len(listing)
  /\ CacheHas(itemsCache, listing[idx])
  /\ idx' = idx + 1
  /\ UNCHANGED <<run, pc, err, result, listing, fileVars, items, itemsCache, spellVars,
                 numFound, resolverVars, log, hist, writes, dbVars>>

\* Lines 289-291: the fetch succeeds.
FetchItemOkFrom(recs) ==
  /\ pc = "items"
  /\ idx <= Len(listing)
  /\ ~CacheHas(itemsCache, listing[idx])
  /\ \E rec \in recs : items' = Append(items, rec)
  /\ itemsCache' = CacheAdd(itemsCache, listing[idx])
  /\ log' = Append(log, [kind |-> "item", id |-> listing[idx], ok |-> TRUE])
  /\ idx' = idx + 1
  /\ UNCHANGED <<run, pc, err, result, listing, fileVars, spellVars, numFound,
                 resolverVars, hist, writes, dbVars>>

\* The same, the record granting at most maxLen spells.
FetchItemOk(maxLen) == FetchItemOkFrom(ItemRecords(listing[idx], maxLen))

\* Faulty variant: a failed item fetch is not caught inside the loop.
FetchItemFailAborts ==
  /\ pc = "items"
  /\ idx <= Len(listing)
  /\ ~CacheHas(itemsCache, listing[idx])
  /\ log' = Append(log, [kind |-> "item", id |-> listing[idx], ok |-> FALSE])
  /\ Caught("FetchError")
  /\ UNCHANGED <<run, listing, fileVars, items, itemsCache, spellVars, numFound, idx,
                 resolverVars, hist, writes, dbVars>>

\* Lines 292-294: the fetch fails, the failure is logged and the loop goes on.
FetchItemFail ==
  /\ pc = "items"
  /\ idx <= Len(listing)
  /\ ~CacheHas(itemsCache, listing[idx])
  /\ log' = Append(log, [kind |-> "item", id |-> listing[idx], ok |-> FALSE])
  /\ idx' = idx + 1
  /\ UNCHANGED <<run, pc, err, result, listing, fileVars, items, itemsCache, spellVars,
                 numFound, resolverVars, hist, writes, dbVars>>

\* Lines 81, 309-316 and the loops of 318-322 unrolled into the pending calls.
EnterUpdateSpells(itemSeq, reads) ==
  /\ pc' = "spells"
  /\ \E readable \in reads :
       LET loaded == loadCache(spellsFile, readable)
       IN /\ spells' = loaded
          /\ spellsCache' = IdsOf(loaded)
          /\ numFound' = Cardinality(IdsOf(loaded))
          /\ hist' = [hist EXCEPT !.spellsLoaded = loaded]
  /\ pending' = GrantedOf(itemSeq)

\* Line 298 false: nothing new, nothing written.
ItemsNotGrown(reads) ==
  /\ pc = "items"
  /\ idx > Len(listing)
  /\ ~Grown(itemsCache, numFound)
  /\ EnterUpdateSpells(items, reads)
  /\ UNCHANGED <<run, err, result, listing, fileVars, items, itemsCache, idx,
                 resolverVars, log, writes, dbVars>>

\* Lines 298-303: sorted and written back.
SaveItems(reads) ==
  /\ pc = "items"
  /\ idx > Len(listing)
  /\ Grown(itemsCache, numFound)
  /\ items' = SortByID(items)
  /\ itemsFile' = SortByID(items)
  /\ EnterUpdateSpells(SortByID(items), reads)
  /\ writes' = writes \cup {"items"}
  /\ UNCHANGED <<run, err, result, listing, spellsFile, outputFile, itemsCache, idx,
                 resolverVars, log, dbVars>>

\* Line 302 throws: caught at line 110.  items.json is left as it was,
\* truncated, which loadCache reads as [], or written in full.
SaveItemsFail(ends) ==
  /\ pc = "items"
  /\ idx > Len(listing)
  /\ Grown(itemsCache, numFound)
  /\ items' = SortByID(items)
  /\ itemsFile' \in FailedWrite(itemsFile, SortByID(items), <<>>, ends)
  /\ Caught("StoreItems")
  /\ writes' = writes \cup {"items"}
  /\ UNCHANGED <<run, listing, spellsFile, outputFile, itemsCache, spellVars, numFound, idx,
                 resolverVars, log, hist, dbVars>>

\* ------------------------------------- updateSpellsCache, cacheRelatedSpells
\* Line 335: the id is in the cache, the call returns at once.
CachedSpell ==
  /\ pc = "spells"
  /\ pending # <<>>
  /\ CacheHas(spellsCache, pending[1])
  /\ pending' = Tail(pending)
  /\ UNCHANGED <<run, pc, err, result, listing, fileVars, items, itemsCache, spells,
                 spellsCache, numFound, idx, resolverVars, log, hist, writes, dbVars>>

\* Lines 338-346: the fetch succeeds; the record is appended, its id joins the
\* cache, and the affected spells of its effects are expanded, in order, before
\* anything that was pending.
FetchSpellOkFrom(recs) ==
  /\ pc = "spells"
  /\ pending # <<>>
  /\ ~CacheHas(spellsCache, pending[1])
  /\ \E rec \in recs :
       /\ spells' = Append(spells, rec)
       /\ pending' = Expanded(AffectedOf(rec.Effects), Tail(pending))
  /\ spellsCache' = CacheAdd(spellsCache, pending[1])
  /\ log' = Append(log, [kind |-> "spell", id |-> pending[1], ok |-> TRUE])
  /\ UNCHANGED <<run, pc, err, result, listing, fileVars, items, itemsCache, numFound,
                 idx, resolverVars, hist, writes, dbVars>>

\* The same, the record having at most maxLen effects.
FetchSpellOk(maxLen) == FetchSpellOkFrom(SpellRecords(pending[1], maxLen))

\* Faulty variant: the id of a failed fetch is remembered for the run.
FetchSpellFailMemoised ==
  /\ pc = "spells"
  /\ pending # <<>>
  /\ ~CacheHas(spellsCache, pending[1])
  /\ pending' = Tail(pending)
  /\ spellsCache' = CacheAdd(spellsCache, pending[1])
  /\ log' = Append(log, [kind |-> "spell", id |-> pending[1], ok |-> FALSE])
  /\ UNCHANGED <<run, pc, err, result, listing, fileVars, items, itemsCache, spells,
                 numFound, idx, resolverVars, hist, writes, dbVars>>

\* Lines 347-349: the fetch fails; logged, this branch is given up.
FetchSpellFail ==
  /\ pc = "spells"
  /\ pending # <<>>
  /\ ~CacheHas(spellsCache, pending[1])
  /\ pending' = Tail(pending)
  /\ log' = Append(log, [kind |-> "spell", id |-> pending[1], ok |-> FALSE])
  /\ UNCHANGED <<run, pc, err, result, listing, fileVars, items, itemsCache, spells,
                 spellsCache, numFound, idx, resolverVars, hist, writes, dbVars>>

\* Lines 79, 83: the aggregation loop starts.
EnterAggregation ==
  /\ pc' = "aggregate"
  /\ ii' = 1
  /\ jj' = 1
  /\ categoryData' = EmptyMap

\* Line 324 false: nothing new, nothing written.
SpellsNotGrown ==
  /\ pc = "spells"
  /\ pending = <<>>
  /\ ~Grown(spellsCache, numFound)
  /\ EnterAggregation
  /\ UNCHANGED <<run, err, result, listing, fileVars, items, itemsCache, spellVars,
                 numFound, idx, stack, auras, lookedup, warned, processed, log, hist, writes, dbVars>>

\* Lines 324-329: sorted and written back.
SaveSpells ==
  /\ pc = "spells"
  /\ pending = <<>>
  /\ Grown(spellsCache, numFound)
  /\ spells' = SortByID(spells)
  /\ spellsFile' = SortByID(spells)
  /\ EnterAggregation
  /\ writes' = writes \cup {"spells"}
  /\ UNCHANGED <<run, err, result, listing, itemsFile, outputFile, items, itemsCache,
                 spellsCache, pending, numFound, idx, stack, auras, lookedup, warned,
                 processed, log, hist, dbVars>>

\* Line 328 throws: caught at line 110.  spells.json is left as it was,
\* truncated, which loadCache reads as [], or written in full.
SaveSpellsFail(ends) ==
  /\ pc = "spells"
  /\ pending = <<>>
  /\ Grown(spellsCache, numFound)
  /\ spells' = SortByID(spells)
  /\ spellsFile' \in FailedWrite(spellsFile, SortByID(spells), <<>>, ends)
  /\ Caught("StoreSpells")
  /\ writes' = writes \cup {"spells"}
  /\ UNCHANGED <<run, listing, itemsFile, outputFile, items, itemsCache, spellsCache, pending,
                 numFound, idx, resolverVars, log, hist, dbVars>>

\* ------------------------------------------- aggregation, getAurasForItem
Top == stack[Len(stack)]

TopData == getData(Top.id, spells)

\* The frame on top moves to its next effect.
Advanced == [stack EXCEPT ![Len(stack)].k = @ + 1]

\* Line 85 when the loop over item.Spells is over: the next item.
NextItem ==
  /\ pc = "aggregate"
  /\ ii <= Len(items)
  /\ jj > Len(items[ii].Spells)
  /\ ii' = ii + 1
  /\ jj' = 1
  /\ UNCHANGED <<run, pc, err, result, listing, fileVars, items, itemsCache, spellVars,
                 numFound, idx, stack, auras, lookedup, categoryData, warned, processed,
                 log, hist, writes, dbVars>>

\* Line 86: a top-level call, with a fresh auras object and a fresh lookedup
\* set (the defaults of line 208); lines 210-215 for the root.
ResolveCall ==
  /\ pc = "aggregate"
  /\ ii <= Len(items)
  /\ jj <= Len(items[ii].Spells)
  /\ LET root == items[ii].Spells[jj] IN
       /\ ~LookedUp({}, root)
       /\ getData(root, spells) # NoData
       /\ lookedup' = MarkLookedUp({}, root)
       /\ stack' = <<[id |-> root, k |-> 1]>>
       /\ processed' = [s \in SpellIds |-> IF s = root THEN 1 ELSE 0]
  /\ auras' = EmptyMap
  /\ pc' = "resolve"
  /\ UNCHANGED <<run, err, result, listing, fileVars, items, itemsCache, spellVars,
                 numFound, idx, ii, jj, categoryData, warned, log, hist, writes, dbVars>>

\* Lines 212-217 for a root without a record: the error is logged, then
\* spellData.Effects throws a TypeError, caught at line 110.
ResolveCallMissing ==
  /\ pc = "aggregate"
  /\ ii <= Len(items)
  /\ jj <= Len(items[ii].Spells)
  /\ getData(items[ii].Spells[jj], spells) = NoData
  /\ lookedup' = MarkLookedUp({}, items[ii].Spells[jj])
  /\ auras' = EmptyMap
  /\ stack' = <<>>
  /\ Caught("TypeError")
  /\ UNCHANGED <<run, listing, fileVars, items, itemsCache, spellVars, numFound, idx,
                 ii, jj, categoryData, warned, processed, log, hist, writes, dbVars>>

\* Faulty variant: the aura is recorded under the affected spell of the effect.
AurasAfterKeyedByAffected(spellData, effect) ==
  IF effect.Aura /\ ~Blacklisted(spellData.Name)
  THEN Put(auras, effect.AffectedSpell, spellData.Name)
  ELSE auras

\* Lines 219-221: the aura of the effect the top frame is at.
AurasAfter(spellData, effect) ==
  IF effect.Aura /\ ~Blacklisted(spellData.Name)
  THEN Put(auras, spellData.ID, spellData.Name)
  ELSE auras

\* Lines 217-225, one effect without an affected spell, or with one that was
\* looked up already (line 210 returns).
ResolveEffect ==
  /\ pc = "resolve"
  /\ Top.k <= Len(TopData.Effects)
  /\ LET effect == TopData.Effects[Top.k] IN
       /\ \/ effect.AffectedSpell = 0
          \/ LookedUp(lookedup, effect.AffectedSpell)
       /\ auras' = AurasAfter(TopData, effect)
  /\ stack' = Advanced
  /\ UNCHANGED <<run, pc, err, result, listing, fileVars, items, itemsCache, spellVars,
                 numFound, idx, ii, jj, lookedup, categoryData, warned, processed, log,
                 hist, writes, dbVars>>

\* Lines 217-225, one effect whose affected spell is entered: lines 210-215 of
\* the recursive call.
ResolveEffectRecurse ==
  /\ pc = "resolve"
  /\ Top.k <= Len(TopData.Effects)
  /\ LET effect == TopData.Effects[Top.k] IN
       /\ effect.AffectedSpell # 0
       /\ ~LookedUp(lookedup, effect.AffectedSpell)
       /\ getData(effect.AffectedSpell, spells) # NoData
       /\ auras' = AurasAfter(TopData, effect)
       /\ lookedup' = MarkLookedUp(lookedup, effect.AffectedSpell)
       /\ stack' = Append(Advanced, [id |-> effect.AffectedSpell, k |-> 1])
       /\ processed' = [processed EXCEPT ![effect.AffectedSpell] = @ + 1]
  /\ UNCHANGED <<run, pc, err, result, listing, fileVars, items, itemsCache, spellVars,
                 numFound, idx, ii, jj, categoryData, warned, log, hist, writes, dbVars>>

\* Lines 222-223, 212-217: the affected spell has no record; the recursive call
\* throws a TypeError, caught at line 110.
ResolveEffectMissing ==
  /\ pc = "resolve"
  /\ Top.k <= Len(TopData.Effects)
  /\ LET effect == TopData.Effects[Top.k] IN
       /\ effect.AffectedSpell # 0
       /\ ~LookedUp(lookedup, effect.AffectedSpell)
       /\ getData(effect.AffectedSpell, spells) = NoData
       /\ auras' = AurasAfter(TopData, effect)
       /\ lookedup' = MarkLookedUp(lookedup, effect.AffectedSpell)
  /\ Caught("TypeError")
  /\ UNCHANGED <<run, listing, fileVars, items, itemsCache, spellVars, numFound, idx,
                 ii, jj, stack, categoryData, warned, processed, log, hist, writes, dbVars>>

\* Line 227 of a recursive call: back in the caller's loop.
ResolveReturn ==
  /\ pc = "resolve"
  /\ Len(stack) > 1
  /\ Top.k > Len(TopData.Effects)
  /\ stack' = SubSeq(stack, 1, Len(stack) - 1)
  /\ UNCHANGED <<run, pc, err, result, listing, fileVars, items, itemsCache, spellVars,
                 numFound, idx, ii, jj, auras, lookedup, categoryData, warned, processed,
                 log, hist, writes, dbVars>>

\* Faulty variant: the result of a top-level call is stored even when empty.
AggregatedAlways(data, itemID, found) == Put(data, itemID, found)

\* Lines 88-91: what the aggregation does with the result of a top-level call.
Aggregated(data, itemID, found) ==
  IF DOMAIN found # {} THEN Put(data, itemID, found) ELSE data

\* Faulty variant: the id leaves the tracking set whatever the call found.
TrackedAlwaysRemoved(cache, itemID, found) == cache \ {itemID}

\* Lines 88-89: itemsCache.delete(item.ID) when the call found an aura; the
\* cache Set of the items serves as the set of items without auras.
Tracked(cache, itemID, found) ==
  IF DOMAIN found # {} THEN cache \ {itemID} ELSE cache

\* Line 227 of the top-level call, then lines 88-91.
AggregateAuras ==
  /\ pc = "resolve"
  /\ Len(stack) = 1
  /\ Top.k > Len(TopData.Effects)
  /\ stack' = <<>>
  /\ categoryData' = Aggregated(categoryData, items[ii].ID, auras)
  /\ itemsCache' = Tracked(itemsCache, items[ii].ID, auras)
  /\ jj' = jj + 1
  /\ pc' = "aggregate"
  /\ UNCHANGED <<run, err, result, listing, fileVars, items, spellVars, numFound, idx,
                 ii, auras, lookedup, warned, processed, log, hist, writes, dbVars>>

\* Lines 95-109: the no-auras warning, the output is written, the store returned.
WriteOutput ==
  /\ pc = "aggregate"
  /\ ii > Len(items)
  /\ warned' = itemsCache
  /\ outputFile' = [exists |-> TRUE, data |-> categoryData]
  /\ pc' = "done"
  /\ result' = "store"
  /\ writes' = writes \cup {"output"}
  /\ UNCHANGED <<run, err, listing, itemsFile, spellsFile, items, itemsCache, spellVars,
                 numFound, idx, ii, jj, stack, auras, lookedup, categoryData, processed,
                 log, hist, dbVars>>

\* Line 104 throws: caught at line 110.  output.json is left as it was,
\* truncated, which readJson rejects as it rejects an absent file, or written
\* in full.
WriteOutputFail(ends) ==
  /\ pc = "aggregate"
  /\ ii > Len(items)
  /\ warned' = itemsCache
  /\ outputFile' \in FailedWrite(outputFile, [exists |-> TRUE, data |-> categoryData], NoOutput, ends)
  /\ Caught("StoreOutput")
  /\ writes' = writes \cup {"output"}
  /\ UNCHANGED <<run, listing, itemsFile, spellsFile, items, itemsCache, spellVars, numFound, idx,
                 ii, jj, stack, auras, lookedup, categoryData, processed, log, hist, dbVars>>

\* ---------------------------------------------------------- prepareDatabase
\* The aura maps an output.json can hold for an item: written by line 90 only
\* when non-empty, with names that passed the exclusion test of line 219.
AuraMaps ==
  UNION {[T -> {n \in Names : n \notin blacklist}] : T \in (SUBSET SpellIds) \ {{}}}

\* The contents an output.json can have.
OutputData == UNION {[I -> AuraMaps] : I \in SUBSET (1..MaxItem)}

\* The output files of the categories, at most MaxOutputs of them written.
OutputWorlds ==
  UNION {{[c \in CategoryNames |->
             IF c \in S THEN [exists |-> TRUE, data |-> f[c]] ELSE NoOutput]
            : f \in [S -> OutputData]}
           : S \in {T \in SUBSET CategoryNames : Cardinality(T) <= MaxOutputs}}

InitDatabase ==
  /\ InitRun
  /\ outputs \in OutputWorlds

\* Line 166.
GroupOf(category) == IF category = "trinkets" THEN "trinkets" ELSE "consumables"

\* Line 167: db[cat] = db[cat] || {}
WithGroup(d, g) == IF g \in DOMAIN d THEN d ELSE Put(d, g, EmptyMap)

\* Lines 169-170: the <<itemID, spellID, name>> triples in the order the two
\* loops over Object.entries visit them (integer keys, ascending).
RECURSIVE AuraEntries(_, _, _)
AuraEntries(itemID, found, spellSeq) ==
  IF spellSeq = <<>> THEN <<>>
  ELSE <<<<itemID, spellSeq[1], found[spellSeq[1]]>>>>
       \o AuraEntries(itemID, found, Tail(spellSeq))

RECURSIVE Entries(_, _)
Entries(data, itemSeq) ==
  IF itemSeq = <<>> THEN <<>>
  ELSE AuraEntries(itemSeq[1], data[itemSeq[1]], SetToSortedSeq(DOMAIN data[itemSeq[1]]))
       \o Entries(data, Tail(itemSeq))

\* Faulty variant: the Set of an aura is created anew for every item.
AddEntryFresh(m, spellID, itemID) == Put(m, spellID, {itemID})

\* Line 173: db[cat][spellID] = (db[cat][spellID] || new Set()).add(itemID)
AddEntry(m, spellID, itemID) ==
  Put(m, spellID, (IF spellID \in DOMAIN m THEN m[spellID] ELSE {}) \cup {itemID})

\* Lines 169-175 for the entries of one output.json.
RECURSIVE AddEntries(_, _)
AddEntries(m, entries) ==
  IF entries = <<>> THEN m
  ELSE AddEntries(AddEntry(m, entries[1][2], entries[1][1]), Tail(entries))

\* Line 172 for the entries of one output.json.
RECURSIVE NamesAfter(_, _)
NamesAfter(names, entries) ==
  IF entries = <<>> THEN names
  ELSE NamesAfter(Put(names, entries[1][2], entries[1][3]), Tail(entries))

\* Lines 165-175: the output.json of the category is read and folded in.
ReadOutput ==
  /\ cat <= Len(Categories)
  /\ outputs[Categories[cat]].exists
  /\ LET g == GroupOf(Categories[cat])
         data == outputs[Categories[cat]].data
         entries == Entries(data, SetToSortedSeq(DOMAIN data))
     IN /\ db' = [WithGroup(db, g) EXCEPT ![g] = AddEntries(@, entries)]
        /\ spellNames' = NamesAfter(spellNames, entries)
  /\ cat' = cat + 1
  /\ UNCHANGED <<run, pc, err, result, listing, fileVars, items, itemsCache, spellVars,
                 numFound, idx, resolverVars, log, hist, writes, outputs>>

\* Lines 165-168, 176-178: readJson throws, the error is logged, the loop goes
\* on with the next category.
ReadOutputFail ==
  /\ cat <= Len(Categories)
  /\ ~outputs[Categories[cat]].exists
  /\ db' = WithGroup(db, GroupOf(Categories[cat]))
  /\ cat' = cat + 1
  /\ UNCHANGED <<run, pc, err, result, listing, fileVars, items, itemsCache, spellVars,
                 numFound, idx, resolverVars, log, hist, writes, outputs, spellNames>>

\* prepareDatabase over the output files the categories have.
NextDatabase ==
  \/ ReadOutput
  \/ ReadOutputFail

SpecDatabase == InitDatabase /\ [][NextDatabase]_vars

\* ----------------------------------------------------------- specification
\* Consecutive runs of one category; the listing may be unreadable, every
\* fetch and every write may fail; the cache files are read.
Next ==
  \/ StartRun(MaxItem, MaxListing, {TRUE})
  \/ ListingUnreadable({TRUE})
  \/ SkipCachedItem
  \/ FetchItemOk(RunsGranted)
  \/ FetchItemFail
  \/ ItemsNotGrown({TRUE})
  \/ SaveItems({TRUE})
  \/ SaveItemsFail(WriteEnds)
  \/ CachedSpell
  \/ FetchSpellOk(RunsEffects)
  \/ FetchSpellFail
  \/ SpellsNotGrown
  \/ SaveSpells
  \/ SaveSpellsFail(WriteEnds)
  \/ NextItem
  \/ ResolveCall
  \/ ResolveCallMissing
  \/ ResolveEffect
  \/ ResolveEffectRecurse
  \/ ResolveEffectMissing
  \/ ResolveReturn
  \/ AggregateAuras
  \/ WriteOutput
  \/ WriteOutputFail(WriteEnds)

Spec == Init /\ [][Next]_vars

\* The spell records of SpecRuns and SpecFaults: of the two names the one that
\* is not excluded.
RunsSpellRecords(id) == {r \in SpellRecords(id, RunsEffects) : r.Name = "Regen"}

\* The runs of Spec, any fetch and any write failing in any of its ways, when
\* the remote serves spells of one name.
NextRuns ==
  \/ StartRun(MaxItem, MaxListing, {TRUE})
  \/ ListingUnreadable({TRUE})
  \/ SkipCachedItem
  \/ FetchItemOk(RunsGranted)
  \/ FetchItemFail
  \/ ItemsNotGrown({TRUE})
  \/ SaveItems({TRUE})
  \/ SaveItemsFail(WriteEnds)
  \/ CachedSpell
  \/ FetchSpellOkFrom(RunsSpellRecords(pending[1]))
  \/ FetchSpellFail
  \/ SpellsNotGrown
  \/ SaveSpells
  \/ SaveSpellsFail(WriteEnds)
  \/ NextItem
  \/ ResolveCall
  \/ ResolveCallMissing
  \/ ResolveEffect
  \/ ResolveEffectRecurse
  \/ ResolveEffectMissing
  \/ ResolveReturn
  \/ AggregateAuras
  \/ WriteOutput
  \/ WriteOutputFail(WriteEnds)

SpecRuns == Init /\ [][NextRuns]_vars

\* The same runs when a cache file may be unreadable as well, over listings
\* of at most ResolveListing ids.
NextFaults ==
  \/ StartRun(MaxItem, ResolveListing, BOOLEAN)
  \/ ListingUnreadable(BOOLEAN)
  \/ SkipCachedItem
  \/ FetchItemOk(RunsGranted)
  \/ FetchItemFail
  \/ ItemsNotGrown(BOOLEAN)
  \/ SaveItems(BOOLEAN)
  \/ SaveItemsFail(WriteEnds)
  \/ CachedSpell
  \/ FetchSpellOkFrom(RunsSpellRecords(pending[1]))
  \/ FetchSpellFail
  \/ SpellsNotGrown
  \/ SaveSpells
  \/ SaveSpellsFail(WriteEnds)
  \/ NextItem
  \/ ResolveCall
  \/ ResolveCallMissing
  \/ ResolveEffect
  \/ ResolveEffectRecurse
  \/ ResolveEffectMissing
  \/ ResolveReturn
  \/ AggregateAuras
  \/ WriteOutput
  \/ WriteOutputFail(WriteEnds)

SpecFaults == Init /\ [][NextFaults]_vars

\* The spell records of SpecClosure: up to MaxEffects effects, each with any
\* reference.  cacheRelatedSpells and the missing-record test of
\* getAurasForItem read nothing of a record but the AffectedSpell of its
\* effects, so one name and one Aura value stand for all.
ClosureSpellRecords(id) ==
  {r \in SpellRecords(id, MaxEffects) :
     r.Name = "Regen" /\ \A e \in DOMAIN r.Effects : r.Effects[e].Aura}

\* Consecutive runs for one listed item that grants up to MaxGranted spells,
\* any fetch and any write failing in any of its ways.
NextClosure ==
  \/ StartRun(ResolveItems, ResolveListing, {TRUE})
  \/ ListingUnreadable({TRUE})
  \/ SkipCachedItem
  \/ FetchItemOk(MaxGranted)
  \/ FetchItemFail
  \/ ItemsNotGrown({TRUE})
  \/ SaveItems({TRUE})
  \/ SaveItemsFail(WriteEnds)
  \/ CachedSpell
  \/ FetchSpellOkFrom(ClosureSpellRecords(pending[1]))
  \/ FetchSpellFail
  \/ SpellsNotGrown
  \/ SaveSpells
  \/ SaveSpellsFail(WriteEnds)
  \/ NextItem
  \/ ResolveCall
  \/ ResolveCallMissing
  \/ ResolveEffect
  \/ ResolveEffectRecurse
  \/ ResolveEffectMissing
  \/ ResolveReturn
  \/ AggregateAuras
  \/ WriteOutput
  \/ WriteOutputFail(WriteEnds)

SpecClosure == Init /\ [][NextClosure]_vars

\* One run from empty caches for one listed item, over the full record space,
\* any fetch and any write failing in any of its ways.
NextOutput ==
  \/ (pc = "idle" /\ StartRun(ResolveItems, ResolveListing, {TRUE}))
  \/ (pc = "idle" /\ ListingUnreadable({TRUE}))
  \/ FetchItemOk(MaxGranted)
  \/ FetchItemFail
  \/ ItemsNotGrown({TRUE})
  \/ SaveItems({TRUE})
  \/ SaveItemsFail(WriteEnds)
  \/ CachedSpell
  \/ FetchSpellOk(MaxEffects)
  \/ FetchSpellFail
  \/ SpellsNotGrown
  \/ SaveSpells
  \/ SaveSpellsFail(WriteEnds)
  \/ NextItem
  \/ ResolveCall
  \/ ResolveCallMissing
  \/ ResolveEffect
  \/ ResolveEffectRecurse
  \/ ResolveEffectMissing
  \/ ResolveReturn
  \/ AggregateAuras
  \/ WriteOutput
  \/ WriteOutputFail(WriteEnds)

SpecOutput == Init /\ [][NextOutput]_vars

\* One run from empty caches over the listings of Spec, the items granting up
\* to MaxGranted spells, any fetch and any write failing in any of its ways.
NextBatch ==
  \/ (pc = "idle" /\ StartRun(MaxItem, MaxListing, {TRUE}))
  \/ (pc = "idle" /\ ListingUnreadable({TRUE}))
  \/ SkipCachedItem
  \/ FetchItemOk(MaxGranted)
  \/ FetchItemFail
  \/ ItemsNotGrown({TRUE})
  \/ SaveItems({TRUE})
  \/ SaveItemsFail(WriteEnds)
  \/ CachedSpell
  \/ FetchSpellOk(RunsEffects)
  \/ FetchSpellFail
  \/ SpellsNotGrown
  \/ SaveSpells
  \/ SaveSpellsFail(WriteEnds)
  \/ NextItem
  \/ ResolveCall
  \/ ResolveCallMissing
  \/ ResolveEffect
  \/ ResolveEffectRecurse
  \/ ResolveEffectMissing
  \/ ResolveReturn
  \/ AggregateAuras
  \/ WriteOutput
  \/ WriteOutputFail(WriteEnds)

SpecBatch == Init /\ [][NextBatch]_vars

\* One run from an empty cache in which no fetch and no write fails, over the
\* full record space: the aggregation works on a fully cached spell graph.
NextResolve ==
  \/ (pc = "idle" /\ StartRun(ResolveItems, ResolveListing, {TRUE}))
  \/ FetchItemOk(MaxGranted)
  \/ ItemsNotGrown({TRUE})
  \/ SaveItems({TRUE})
  \/ CachedSpell
  \/ FetchSpellOk(MaxEffects)
  \/ SpellsNotGrown
  \/ SaveSpells
  \/ NextItem
  \/ ResolveCall
  \/ ResolveEffect
  \/ ResolveEffectRecurse
  \/ ResolveReturn
  \/ AggregateAuras
  \/ WriteOutput

SpecResolve == Init /\ [][NextResolve]_vars

FairSpecResolve == SpecResolve /\ WF_vars(NextResolve)

\* The spell graphs updateSpellsCache is checked on: ExpandSpells spell ids,
\* records of up to MaxEffects effects.  cacheRelatedSpells reads nothing of a
\* record but the AffectedSpell of its effects, so one name and one Aura value
\* stand for all.
ExpandEffects ==
  UNION {[1..n -> [Aura : {FALSE}, AffectedSpell : 0..ExpandSpells]] : n \in 0..MaxEffects}

ExpandSpellRecords(id) ==
  {[ID |-> id, Name |-> "Regen", Effects |-> e] : e \in ExpandEffects}

ExpandItemRecords(id) ==
  {[ID |-> id, Spells |-> g] :
     g \in UNION {[1..n -> 1..ExpandSpells] : n \in 0..MaxGranted}}

\* One run of updateItemsCache and updateSpellsCache from empty caches, any
\* spell fetch of which may fail.
NextExpand ==
  \/ (pc = "idle" /\ StartRun(ResolveItems, ResolveListing, {TRUE}))
  \/ FetchItemOkFrom(ExpandItemRecords(listing[idx]))
  \/ ItemsNotGrown({TRUE})
  \/ SaveItems({TRUE})
  \/ CachedSpell
  \/ FetchSpellOkFrom(ExpandSpellRecords(pending[1]))
  \/ FetchSpellFail
  \/ SpellsNotGrown
  \/ SaveSpells

SpecExpand == Init /\ [][NextExpand]_vars

\* The same run for items that grant at most RunsGranted spells; every step of
\* the run is eventually taken.
NextCycles ==
  \/ (pc = "idle" /\ StartRun(ResolveItems, ResolveListing, {TRUE}))
  \/ FetchItemOk(RunsGranted)
  \/ ItemsNotGrown({TRUE})
  \/ SaveItems({TRUE})
  \/ CachedSpell
  \/ FetchSpellOkFrom(ExpandSpellRecords(pending[1]))
  \/ FetchSpellFail
  \/ SpellsNotGrown
  \/ SaveSpells

SpecCycles == Init /\ [][NextCycles]_vars

FairSpecCycles == SpecCycles /\ WF_vars(NextCycles)

TypeOK ==
  /\ run \in 0..MaxRuns
  /\ pc \in {"idle", "items", "spells", "aggregate", "resolve", "done", "caught"}
  /\ err \in {"none", "Error", "TypeError", "StoreItems", "StoreSpells", "StoreOutput"}
  /\ result \in {"pending", "store", "undefined", "thrown"}

\* ------------------------------------------------ vocabulary of the claims
\* The affected-spell references of the record of id in store, if it has one.
RefsOf(id, store) ==
  UNION {{store[i].Effects[e].AffectedSpell : e \in DOMAIN store[i].Effects} \ {0}
           : i \in {j \in DOMAIN store : store[j].ID = id}}

\* The spell ids reachable from the ids of S through affected-spell references
\* of the records of store, S included.
RECURSIVE ReachableFrom(_, _)
ReachableFrom(S, store) ==
  LET more == S \cup UNION {RefsOf(id, store) : id \in S}
  IN IF more = S THEN S ELSE ReachableFrom(more, store)

\* The records of store that carry an aura-granting effect under a name that
\* is not excluded.
AuraRecords(store) ==
  {i \in DOMAIN store :
     /\ \E e \in DOMAIN store[i].Effects : store[i].Effects[e].Aura
     /\ store[i].Name \notin blacklist}

\* The mapping a resolution from the spell ids of S is specified to give.
ExpectedAuras(S, store) ==
  LET hit == {i \in AuraRecords(store) : store[i].ID \in ReachableFrom(S, store)}
  IN [id \in {store[i].ID : i \in hit} |->
        store[CHOOSE i \in hit : store[i].ID = id].Name]

\* The spell ids an item record grants.
GrantedBy(item) == {item.Spells[j] : j \in DOMAIN item.Spells}

\* The top-level call of getAurasForItem is about to return its auras.
Returning ==
  /\ pc = "resolve"
  /\ Len(stack) = 1
  /\ stack[1].k > Len(getData(stack[1].id, spells).Effects)

\* The entry of an item in a category mapping, empty when it has none.
EntryOf(data, itemID) == IF itemID \in DOMAIN data THEN data[itemID] ELSE EmptyMap

\* ------------------------------------------------------------------ claims
\* C1: when the aggregation of a category is over, the aura map stored for an
\* item is the union of the aura maps of all the spells the item grants: every
\* aura found from any granted spell is in the item's entry.
C1_ItemEntryIsUnion ==
  pc = "done" =>
    \A i \in DOMAIN items :
      LET want == ExpectedAuras(GrantedBy(items[i]), spells)
          have == EntryOf(categoryData, items[i].ID)
      IN \A s \in DOMAIN want : s \in DOMAIN have /\ have[s] = want[s]

\* C2: a spell id without a record in the category's spell collection, met by
\* the resolver, does not fail the run: the run is never ended by the error
\* the missing record raises.
C2_MissingSpellNotFatal ==
  ~(pc = "caught" /\ err = "TypeError" /\ idx # 0)

\* C8: a top-level call over a fully cached spell graph returns exactly the
\* mapping id -> name of the spells reachable from the root that carry an
\* aura-granting effect under a name that is not excluded.
C8_ResolveIsReachableAuras ==
  Returning => auras = ExpectedAuras({stack[1].id}, spells)

\* C8 witness: a call returns an aura it found behind a root that is not an
\* aura itself (Scenario B).
C8_Witness ==
  /\ Returning
  /\ DOMAIN auras # {}
  /\ stack[1].id \notin DOMAIN auras

\* The ids of the records of a collection.
RecordIds(store) == {store[i].ID : i \in DOMAIN store}

\* The ids of the fetches of one kind among a set of fetches.
IdsOfKind(fetches, kind) == {f.id : f \in {g \in fetches : g.kind = kind}}

StoreErrors == {"StoreItems", "StoreSpells", "StoreOutput"}

\* updateItemsCache has returned in this run.
ItemsReturned ==
  \/ pc \in {"spells", "aggregate", "resolve", "done"}
  \/ pc = "caught" /\ err # "StoreItems" /\ idx # 0

\* The expansion of updateSpellsCache is over in this run: every fetch of the
\* run has been issued.
SpellsExpanded ==
  \/ pc \in {"aggregate", "resolve", "done"}
  \/ pc = "caught" /\ err # "StoreItems" /\ idx # 0

\* The run is over.
RunOver == pc \in {"done", "caught"}

\* C3: a record whose fetch failed in the previous run and that is still
\* referenced in this run (an item still listed; a spell reachable through the
\* affected-spell references of cached spells from a spell granted by a cached
\* item) is fetched again in this run.
C3_FailedFetchRetried ==
  (run >= 2 /\ SpellsExpanded) =>
    \A f \in hist.failed :
      (IF f.kind = "item"
       THEN \E i \in DOMAIN listing : listing[i] = f.id
       ELSE f.id \in ReachableFrom(UNION {GrantedBy(items[i]) : i \in DOMAIN items}, spells))
      => f \in Failed(log) \cup Fetched(log)

\* C4: the persisted item collection is sorted by strictly ascending id (so it
\* has no duplicate id), and once updateItemsCache has returned its ids are
\* those of the cache persisted before the run and those fetched successfully
\* in this run.
C4_ItemsFileSortedUnion ==
  /\ \A i, j \in DOMAIN itemsFile : i < j => itemsFile[i].ID < itemsFile[j].ID
  /\ ItemsReturned =>
       RecordIds(itemsFile) = RecordIds(hist.itemsFile) \cup IdsOfKind(Fetched(log), "item")

\* This run saw the listing of the previous one, the fetcher answered every id
\* the way it answered before, and the record store served both runs: every
\* file was read, every write succeeded.
SameEnvironment ==
  /\ run >= 2
  /\ idx # 0 /\ hist.listingRead
  /\ listing = hist.listing
  /\ err \notin StoreErrors
  /\ hist.err \notin StoreErrors
  /\ hist.cachesRead
  /\ hist.itemsLoaded = hist.itemsFile
  /\ hist.spellsLoaded = hist.spellsFile
  /\ (Failed(log) \cup hist.failed) \cap (Fetched(log) \cup hist.fetched) = {}

\* C5: a run against the listing and the fetcher of the previous run ends the
\* way the previous run did, with the same category output, and leaves the
\* item and the spell cache as it found them.
C5_SecondRunIdempotent ==
  (RunOver /\ SameEnvironment) =>
    /\ itemsFile = hist.itemsFile
    /\ spellsFile = hist.spellsFile
    /\ outputFile = hist.outputFile
    /\ pc = hist.pc
    /\ pc = "done" => hist.outputFile = [exists |-> TRUE, data |-> categoryData]

\* C5 witness: a second run repeated a failed fetch and a non-empty output.
C5_Witness ==
  /\ RunOver
  /\ SameEnvironment
  /\ pc = "done"
  /\ DOMAIN categoryData # {}
  /\ Failed(log) # {}

\* The spells an item reaches that carry an aura-granting effect.
AuraSpellsOf(item) ==
  {k \in DOMAIN spells :
     /\ spells[k].ID \in ReachableFrom(GrantedBy(item), spells)
     /\ \E e \in DOMAIN spells[k].Effects : spells[k].Effects[e].Aura}

\* No entry of a category mapping has an excluded name.
NoExcludedEntry(data) ==
  \A it \in DOMAIN data : \A s \in DOMAIN data[it] : data[it][s] \notin blacklist

\* C6: no aura entry is a spell with an excluded name, in the mapping under
\* construction and in the persisted output; and when a run is done, an item
\* whose aura-granting spells are all excluded has no entry and is named by
\* the no-auras warning.
C6_ExclusionLaw ==
  /\ NoExcludedEntry(categoryData)
  /\ \A s \in DOMAIN auras : auras[s] \notin blacklist
  /\ NoExcludedEntry(outputFile.data)
  /\ \A it \in DOMAIN categoryData : \A s \in DOMAIN categoryData[it] :
       \A k \in DOMAIN spells : spells[k].ID = s => spells[k].Name \notin blacklist
  /\ pc = "done" =>
       \A i \in DOMAIN items :
         (\A k \in AuraSpellsOf(items[i]) : spells[k].Name \in blacklist)
         => /\ items[i].ID \notin DOMAIN outputFile.data
            /\ items[i].ID \in warned

\* C6 witness: a run is done with an item whose aura-granting spells, two of
\* them and one with two effects, are all excluded (Scenario D).
C6_Witness ==
  /\ pc = "done"
  /\ \E i \in DOMAIN items :
       /\ Cardinality(AuraSpellsOf(items[i])) = 2
       /\ \E k \in AuraSpellsOf(items[i]) : Len(spells[k].Effects) = 2
       /\ \A k \in AuraSpellsOf(items[i]) : spells[k].Name \in blacklist
       /\ items[i].ID \in warned

\* C7: a top-level call over a fully cached spell graph terminates, and no
\* spell id has its effects processed twice within its call tree.
C7_ResolveTerminates ==
  /\ [](\A s \in SpellIds : processed[s] <= 1)
  /\ (pc = "resolve") ~> (pc = "aggregate")

\* C7 witness: a top-level call has returned from a graph in which a spell it
\* looked up reaches itself.
C7_Witness ==
  /\ pc = "aggregate"
  /\ jj > 1
  /\ \E s \in lookedup : s \in ReachableFrom(RefsOf(s, spells), spells)
  /\ Cardinality(lookedup) = 2

\* The item fetches of this run, in the order they were issued.
ItemLog == SelectSeq(log, LAMBDA f : f.kind = "item")

\* The item fetches from the k-th on are those of a loop over ids that skips
\* the ids of seen, fetches every other one and adds it to seen when the fetch
\* succeeded.
RECURSIVE ListingWalk(_, _, _)
ListingWalk(ids, seen, k) ==
  IF ids = <<>> THEN k = Len(ItemLog) + 1
  ELSE IF ids[1] \in seen THEN ListingWalk(Tail(ids), seen, k)
  ELSE /\ k <= Len(ItemLog)
       /\ ItemLog[k].id = ids[1]
       /\ ListingWalk(Tail(ids), IF ItemLog[k].ok THEN seen \cup {ids[1]} ELSE seen, k + 1)

\* The loop of updateItemsCache over the listing is over, however it ended.
ItemsLoopOver ==
  \/ pc \in {"spells", "aggregate", "resolve", "done"}
  \/ pc = "caught" /\ idx # 0
  \/ pc = "items" /\ idx > Len(listing)

\* The ids of the items every fetch of which failed in this run.
NeverFetched == IdsOfKind(Failed(log), "item") \ IdsOfKind(Fetched(log), "item")

\* C9: a failed item fetch is local.  A run is only ever ended by an unreadable
\* listing, a missing spell record or the record store, never by a fetch.
\* When the loop over the listing is over, every occurrence of a listed id
\* that was not in the id-set has been fetched, in order, whichever fetches
\* failed; the ids fetched successfully are in the item collection; an id
\* every fetch of which failed is not in the item collection, not in what the
\* run writes to items.json, and not in the category output of the run.
C9_ItemFetchFailureLocal ==
  /\ pc = "caught" => (idx = 0 \/ err \in {"TypeError"} \cup StoreErrors)
  /\ ItemsLoopOver =>
       /\ ListingWalk(listing, RecordIds(hist.itemsLoaded), 1)
       /\ IdsOfKind(Fetched(log), "item") \subseteq RecordIds(items)
       /\ \A id \in NeverFetched :
            /\ id \notin RecordIds(items)
            /\ id \notin DOMAIN categoryData
            /\ ("items" \in writes /\ err # "StoreItems") => id \notin RecordIds(itemsFile)
            /\ pc = "done" => id \notin DOMAIN outputFile.data

\* C9 witness: a run is done in which the first listed item failed and the
\* second was fetched and cached (Scenario E).
C9_Witness ==
  /\ pc = "done"
  /\ Len(log) >= 2
  /\ log[1] = [kind |-> "item", id |-> 1, ok |-> FALSE]
  /\ log[2] = [kind |-> "item", id |-> 2, ok |-> TRUE]
  /\ RecordIds(itemsFile) = {2}

\* C10: a failure of the record store is propagated to the caller of
\* prepareItemAndSpellData.
C10_StoreErrorPropagates ==
  (pc = "caught" /\ err \in StoreErrors) => result = "thrown"

\* ---------------------------------------------------------------- C11
\* The aggregation of the category is over: the output was written (or its
\* write was attempted) and the no-auras warning was computed.
AggregationOver == pc = "done" \/ (pc = "caught" /\ err = "StoreOutput")

\* The ids of the cached items for which an aura is discoverable.
ItemsWithAuras ==
  {items[i].ID : i \in {j \in DOMAIN items :
                          DOMAIN ExpectedAuras(GrantedBy(items[j]), spells) # {}}}

\* C11: at the end of a category's aggregation the ids of the cached items are
\* partitioned into the keys of the category output, which are exactly the
\* items with a discovered aura, each with a non-empty aura map, and the ids
\* left in the tracking set, which are exactly the items without one and the
\* ones the no-auras warning names.
C11_OutputAndWarningPartition ==
  AggregationOver =>
    /\ DOMAIN categoryData \cap itemsCache = {}
    /\ DOMAIN categoryData \cup itemsCache = RecordIds(items)
    /\ DOMAIN categoryData = ItemsWithAuras
    /\ \A id \in DOMAIN categoryData : DOMAIN categoryData[id] # {}
    /\ warned = itemsCache
    /\ pc = "done" => outputFile.data = categoryData

\* C11 witness: a run ended with one item in the output and another one
\* warned; the item in the output grants two spells, one that reaches an aura
\* and one that reaches none.
C11_Witness ==
  /\ pc = "done"
  /\ DOMAIN categoryData # {}
  /\ warned # {}
  /\ DOMAIN categoryData \cup warned = RecordIds(items)
  /\ \E i \in DOMAIN items :
       /\ items[i].ID \in DOMAIN categoryData
       /\ \E a, b \in GrantedBy(items[i]) :
            /\ DOMAIN ExpectedAuras({a}, spells) # {}
            /\ DOMAIN ExpectedAuras({b}, spells) = {}

\* ---------------------------------------------------------------- C12
\* The categories prepareDatabase has been through.
CategoriesRead == {Categories[c] : c \in 1..(cat - 1)}

\* The items of the set db keeps for aura s in group g.
DbItems(g, s) ==
  IF g \in DOMAIN db /\ s \in DOMAIN db[g] THEN db[g][s] ELSE {}

\* Item i carries aura s in the output of a category of group g that was read.
CarriedInGroup(g, s, i) ==
  \E c \in CategoriesRead :
    /\ (g = "trinkets") <=> (c = "trinkets")
    /\ outputs[c].exists
    /\ i \in DOMAIN outputs[c].data
    /\ s \in DOMAIN outputs[c].data[i]

\* C12: the aura-to-items mapping is the exact inversion of the category
\* outputs per group, trinkets on their own and every other category merged as
\* consumables: an item is in the set of an aura of a group iff a category of
\* the group has the aura in the aura map of the item.
C12_DatabaseIsInversion ==
  /\ DOMAIN db \subseteq {"trinkets", "consumables"}
  /\ \A g \in DOMAIN db :
       /\ DOMAIN db[g] \subseteq SpellIds
       /\ \A s \in DOMAIN db[g] : db[g][s] # {} /\ db[g][s] \subseteq 1..MaxItem
  /\ \A g \in {"trinkets", "consumables"} : \A s \in SpellIds : \A i \in 1..MaxItem :
       i \in DbItems(g, s) <=> CarriedInGroup(g, s, i)

\* C12 witness: every category was read, and an aura of the consumables has
\* two items that come from the outputs of two categories.
C12_Witness ==
  /\ cat > Len(Categories)
  /\ \E s \in SpellIds : \E c1, c2 \in CategoryNames \ {"trinkets"} :
       /\ c1 # c2
       /\ outputs[c1].exists /\ outputs[c2].exists
       /\ DOMAIN outputs[c1].data = {1} /\ s \in DOMAIN outputs[c1].data[1]
       /\ DOMAIN outputs[c2].data = {2} /\ s \in DOMAIN outputs[c2].data[2]
       /\ DbItems("consumables", s) = {1, 2}

\* ---------------------------------------------------------------- C13
\* No two records of a collection have the same id.
NoDuplicateIds(store) ==
  \A i, j \in DOMAIN store : store[i].ID = store[j].ID => i = j

\* C13: updateSpellsCache terminates for every item collection and every
\* spell graph, cycles and self-references included, whichever fetches fail,
\* and no spell record is appended to the collection twice.
C13_UpdateSpellsTerminates ==
  /\ [](NoDuplicateIds(spells))
  /\ (pc = "spells") ~> (pc = "aggregate")

\* C13 witness: the expansion returned from a graph in which a fetched spell
\* reaches itself through another fetched spell.
C13_Witness ==
  /\ pc = "aggregate"
  /\ Len(spells) >= 2
  /\ \E id \in RecordIds(spells) :
       /\ id \notin RefsOf(id, spells)
       /\ id \in ReachableFrom(RefsOf(id, spells), spells)

\* ---------------------------------------------------------------- C14
\* The spell fetches of this run, in the order they were issued.
SpellLog == SelectSeq(log, LAMBDA f : f.kind = "spell")

\* C14: within a run no spell is fetched whose id is in the id-set of the spell
\* cache, that is, whose record was in the cache when the run started or was
\* fetched successfully earlier in the run.
C14_NoFetchOfCachedSpell ==
  \A k \in DOMAIN SpellLog :
    /\ SpellLog[k].id \notin RecordIds(hist.spellsLoaded)
    /\ \A j \in 1..(k - 1) : ~(SpellLog[j].id = SpellLog[k].id /\ SpellLog[j].ok)

\* C14 witness: in a second run an item grants a spell the first run cached
\* and the one spell that is fetched refers to a cached spell; no cached spell
\* is fetched.
C14_Witness ==
  /\ run = 2
  /\ SpellsExpanded
  /\ Len(SpellLog) = 1
  /\ SpellLog[1].ok
  /\ \E c \in RecordIds(hist.spellsLoaded) :
       \E i \in DOMAIN items : GrantedBy(items[i]) = {c}
  /\ RefsOf(SpellLog[1].id, spells) \cap RecordIds(hist.spellsLoaded) # {}

\* ---------------------------------------------------------------- C15
\* A category is being processed.
Processing == pc \in {"items", "spells", "aggregate", "resolve"}

\* C15 as stated: throughout updateItemsCache, updateSpellsCache and the
\* aggregation, the id-set of each cache is the set of ids of its collection.
C15_IdSetIsRecordIds ==
  Processing =>
    /\ itemsCache = RecordIds(items)
    /\ spellsCache = RecordIds(spells)

\* C15 amended: the id-set of the spell cache is always the set of ids of the
\* spell collection; the id-set of the item cache is the set of ids of the
\* item collection until the aggregation starts, which then removes from it the
\* id of every item it stores an aura map for.
C15_IdSetsUntilAggregation ==
  /\ spellsCache = RecordIds(spells)
  /\ itemsCache = RecordIds(items) \ DOMAIN categoryData
  /\ pc \in {"items", "spells"} => itemsCache = RecordIds(items)

\* C15 witness: the aggregation has taken the id of a cached item out of the
\* id-set and goes on with the next item.
C15_Witness ==
  /\ pc = "aggregate"
  /\ ii <= Len(items)
  /\ DOMAIN categoryData # {}
  /\ itemsCache # RecordIds(items)
  /\ spells # <<>>

\* ---------------------------------------------------------------- C16
\* A collection is sorted by strictly ascending id.
SortedByID(store) ==
  \A i, j \in DOMAIN store : i < j => store[i].ID < store[j].ID

\* C16: updateItemsCache and updateSpellsCache sort and write their cache iff
\* a new record was fetched successfully in this run; otherwise no write is
\* issued and the stored cache is what it was when the run started.
C16_WriteIffGrown ==
  /\ pc = "items" => writes = {} /\ itemsFile = hist.itemsFile
  /\ ItemsReturned \/ (pc = "caught" /\ err = "StoreItems") =>
       /\ "items" \in writes <=> IdsOfKind(Fetched(log), "item") # {}
       /\ "items" \notin writes => itemsFile = hist.itemsFile
       /\ ("items" \in writes /\ err # "StoreItems") =>
            /\ SortedByID(itemsFile)
            /\ RecordIds(itemsFile) = RecordIds(items)
  /\ pc \in {"items", "spells"} => "spells" \notin writes /\ spellsFile = hist.spellsFile
  /\ SpellsExpanded =>
       /\ "spells" \in writes <=> IdsOfKind(Fetched(log), "spell") # {}
       /\ "spells" \notin writes => spellsFile = hist.spellsFile
       /\ ("spells" \in writes /\ err # "StoreSpells") =>
            /\ SortedByID(spellsFile)
            /\ RecordIds(spellsFile) = RecordIds(spells)

\* C16 witness: a second run in which the only item fetch failed, so that the
\* items were not written, and a spell was fetched, so that the spells were.
C16_Witness ==
  /\ run = 2
  /\ pc = "done"
  /\ hist.itemsFile # <<>>
  /\ IdsOfKind(Failed(log), "item") # {}
  /\ "items" \notin writes
  /\ "spells" \in writes

\* ---------------------------------------------------------------- C17
\* The affected spells of the record of id in store, in the order of its
\* effects.
RefSeq(id, store) ==
  LET rec == store[CHOOSE i \in DOMAIN store : store[i].ID = id]
      at == SetToSortedSeq({e \in DOMAIN rec.Effects : rec.Effects[e].AffectedSpell # 0})
  IN [n \in DOMAIN at |-> rec.Effects[at[n]].AffectedSpell]

\* The granted spells of the items of a collection, item by item.
RootSeq(itemSeq) ==
  LET at == {<<i, j>> : i \in DOMAIN itemSeq, j \in 1..MaxGranted}
      real == {p \in at : p[2] \in DOMAIN itemSeq[p[1]].Spells}
      Before(p, q) == p[1] < q[1] \/ (p[1] = q[1] /\ p[2] < q[2])
      Rank(p) == Cardinality({q \in real : Before(q, p)}) + 1
  IN [n \in 1..Cardinality(real) |->
        LET p == CHOOSE q \in real : Rank(q) = n IN itemSeq[p[1]].Spells[p[2]]]

\* A depth-first walk that reads the fetches of SpellLog as it goes: st.seen
\* is the id-set, st.k the next fetch of the log, st.good whether the log has
\* agreed with the walk so far.  A spell in the id-set is skipped; any other
\* must be the next fetch; if that fetch succeeded its references are walked,
\* in order and to the end, before the walk goes on.
RECURSIVE Visit(_, _, _)
RECURSIVE VisitAll(_, _, _)
Visit(id, st, store) ==
  IF ~st.good \/ id \in st.seen THEN st
  ELSE IF st.k > Len(SpellLog) \/ SpellLog[st.k].id # id
       THEN [st EXCEPT !.good = FALSE]
  ELSE IF ~SpellLog[st.k].ok THEN [st EXCEPT !.k = @ + 1]
  ELSE VisitAll(RefSeq(id, store),
                [seen |-> st.seen \cup {id}, k |-> st.k + 1, good |-> TRUE], store)

VisitAll(ids, st, store) ==
  IF ids = <<>> THEN st
  ELSE VisitAll(Tail(ids), Visit(ids[1], st, store), store)

\* C17: the spell fetches of a run are issued in depth-first pre-order: items
\* in collection order, the granted spells of an item in order, the effects of
\* a fetched spell in record order, everything a referenced spell leads to
\* before the next effect, ids of the id-set skipped.
C17_FetchesDepthFirst ==
  SpellsExpanded =>
    LET st == VisitAll(RootSeq(items),
                       [seen |-> RecordIds(hist.spellsLoaded), k |-> 1, good |-> TRUE],
                       spells)
    IN st.good /\ st.k = Len(SpellLog) + 1

\* C17 witness: an item grants two spells, the first refers to a third one,
\* and the third was fetched before the second.
C17_Witness ==
  /\ pc = "aggregate"
  /\ Len(items) = 1
  /\ Len(items[1].Spells) = 2
  /\ Len(SpellLog) = 3
  /\ \A k \in 1..3 : SpellLog[k].ok
  /\ SpellLog[1].id = items[1].Spells[1]
  /\ SpellLog[3].id = items[1].Spells[2]
  /\ SpellLog[2].id \notin GrantedBy(items[1])

\* ---------------------------------------------------------------- C18
\* Every reference of a record of the collection has a record in it.
Closed(store) == \A id \in RecordIds(store) : RefsOf(id, store) \subseteq RecordIds(store)

\* The spells granted by the items of the collection.
AllGranted == UNION {GrantedBy(items[i]) : i \in DOMAIN items}

\* C18: when the run started from a spell cache closed under affected-spell
\* references and no spell fetch of the run failed, every spell reachable
\* from a granted spell of a cached item has a record once updateSpellsCache
\* is through, and the resolution does not meet a missing record.
C18_ClosedCacheStaysClosed ==
  (SpellsExpanded /\ Closed(hist.spellsLoaded) /\ IdsOfKind(Failed(log), "spell") = {}) =>
    /\ ReachableFrom(AllGranted, spells) \subseteq RecordIds(spells)
    /\ Closed(spells)
    /\ err # "TypeError"

\* C18 witness: a second run started from a closed cache that held a record,
\* fetched a spell with two references, and resolved every item.
C18_Witness ==
  /\ run = 2
  /\ pc = "done"
  /\ hist.spellsLoaded # <<>>
  /\ Closed(hist.spellsLoaded)
  /\ IdsOfKind(Failed(log), "spell") = {}
  /\ \E f \in Fetched(log) : f.kind = "spell" /\ Cardinality(RefsOf(f.id, spells)) = 2

\* ---------------------------------------------------------------- C19
\* The records of a collection.
Records(store) == {store[i] : i \in DOMAIN store}

\* C19: caches only grow.  The records items.json and spells.json held when
\* the run started are in them whatever the run did, and are in the
\* collections the run works on; an item cached by an earlier run, listed or
\* not, is in the output of the run when an aura is reachable from it.
C19_CachesOnlyGrow ==
  /\ Records(hist.itemsFile) \subseteq Records(itemsFile)
  /\ Records(hist.spellsFile) \subseteq Records(spellsFile)
  /\ ItemsReturned => Records(hist.itemsFile) \subseteq Records(items)
  /\ SpellsExpanded => Records(hist.spellsFile) \subseteq Records(spells)
  /\ pc = "done" =>
       \A rec \in Records(hist.itemsFile) :
         DOMAIN ExpectedAuras(GrantedBy(rec), spells) # {}
           => rec.ID \in DOMAIN outputFile.data

\* ---------------------------------------------------------------- C20
\* How many fetches of the spell the run issued, and how many of them succeeded.
Calls(s) == Cardinality({k \in DOMAIN SpellLog : SpellLog[k].id = s})

Successes(s) == Cardinality({k \in DOMAIN SpellLog : SpellLog[k].id = s /\ SpellLog[k].ok})

\* How many times the spell is reached: once for every entry of the granted
\* spells of an item and once for every effect of a record fetched in this
\* run that refers to it.
Reaches(s) ==
  Cardinality({<<i, j>> \in (DOMAIN items) \X (1..MaxGranted) :
                 j \in DOMAIN items[i].Spells /\ items[i].Spells[j] = s})
  + Cardinality({<<i, e>> \in (DOMAIN spells) \X (1..MaxEffects) :
                   /\ spells[i].ID \in IdsOfKind(Fetched(log), "spell")
                   /\ e \in DOMAIN spells[i].Effects
                   /\ spells[i].Effects[e].AffectedSpell = s})

\* C20: a failed spell fetch is not remembered within a run.  A spell whose
\* fetches all failed was fetched once for every time it was reached; a spell
\* fetched successfully was fetched successfully once, by the last fetch issued
\* for it.
C20_FailedFetchNotMemoised ==
  SpellsExpanded =>
    \A s \in 1..ExpandSpells :
      /\ Successes(s) <= 1
      /\ (Successes(s) = 0 /\ s \notin RecordIds(hist.spellsLoaded)) => Calls(s) = Reaches(s)
      /\ \A k, j \in DOMAIN SpellLog :
           (SpellLog[k].id = s /\ SpellLog[k].ok /\ SpellLog[j].id = s) => j <= k

\* C20 witness: one spell was fetched three times without success, another
\* one failed once and was then fetched.
C20_Witness ==
  /\ pc = "aggregate"
  /\ \E s \in 1..ExpandSpells : Calls(s) = 3 /\ Successes(s) = 0
  /\ \E s \in 1..ExpandSpells : Calls(s) = 2 /\ Successes(s) = 1
====
